---- MODULE Spec2Model ----
(***************************************************************************)
(* The text-adventure quine generator of adventure.py and the keyboard     *)
(* machine its output runs on.                                             *)
(*                                                                         *)
(* A Python string is a sequence of one-character strings, so that the     *)
(* program text can be indexed, sliced and compared character by           *)
(* character.  Coordinates are the 0-based pairs <<x, y>> of the source    *)
(* (Q is <<0, 0>>, W is <<1, 0>>).                                         *)
(***************************************************************************)
EXTENDS Integers, Sequences, FiniteSets, TLC

(***************************************************************************)
(* Keyboard                                                                *)
(***************************************************************************)
QWERTY ==
    << <<"q", "w", "e", "r", "t", "y", "u", "i", "o", "p">>,
       <<"a", "s", "d", "f", "g", "h", "j", "k", "l">>,
       <<"z", "x", "c", "v", "b", "n", "m">> >>

\* The laid-out cells: the <<i, j>> enumerated by the two comprehensions.
Cells ==
    UNION { { <<i, j>> : i \in 0 .. (Len(QWERTY[j + 1]) - 1) } :
            j \in 0 .. (Len(QWERTY) - 1) }

KEY_AT == [c \in Cells |-> QWERTY[c[2] + 1][c[1] + 1]]

Keys == { KEY_AT[c] : c \in Cells }

LOC_OF == [k \in Keys |-> CHOOSE c \in Cells : KEY_AT[c] = k]

\* Python's None, for the optional end of press
None == "None"

\* str.isspace for the characters that occur
isspace(c) == c \in {" ", "\n"}

\* c * n for a one-character string c
RECURSIVE Rep(_, _)
Rep(c, n) == IF n <= 0 THEN <<>> ELSE <<c>> \o Rep(c, n - 1)

\* walk with the e steps taken before the steps up and down
RECURSIVE walk_xy_efirst(_, _)
walk_xy_efirst(x, y) ==
    IF x < 0 THEN <<"w">> \o walk_xy_efirst(x + 1, y)
    ELSE IF x > 0 THEN <<"e">> \o walk_xy_efirst(x - 1, y)
    ELSE IF y > 0 THEN <<"s", "e">> \o walk_xy_efirst(x, y - 1)
    ELSE IF y < 0 THEN <<"n", "w">> \o walk_xy_efirst(x, y + 1)
    ELSE <<>>

\* The body of walk, after x, y = offset
RECURSIVE walk_xy(_, _)
walk_xy(x, y) ==
    IF x < 0 THEN <<"w">> \o walk_xy(x + 1, y)
    ELSE IF y > 0 THEN <<"s", "e">> \o walk_xy(x, y - 1)
    ELSE IF y < 0 THEN <<"n", "w">> \o walk_xy(x, y + 1)
    ELSE IF x > 0 THEN <<"e">> \o walk_xy(x - 1, y)
    ELSE <<>>

walk(offset) == walk_xy(offset[1], offset[2])

sub(offset1, offset2) ==
    <<offset1[1] - offset2[1], offset1[2] - offset2[2]>>

\* press without prev = loc at the end of an iteration
RECURSIVE press_loop_stale(_, _, _)
press_loop_stale(keys, prev, end) ==
    IF keys = <<>> THEN walk(sub(end, prev))
    ELSE IF isspace(Head(keys)) THEN press_loop_stale(Tail(keys), prev, end)
    ELSE walk(sub(LOC_OF[Head(keys)], prev)) \o <<"p">>
             \o press_loop_stale(Tail(keys), prev, end)

\* The for loop of press and the walk to end that follows it: keys is what is
\* left of the string, prev the loop variable, end the resolved end location.
RECURSIVE press_loop(_, _, _)
press_loop(keys, prev, end) ==
    IF keys = <<>> THEN walk(sub(end, prev))
    ELSE IF isspace(Head(keys)) THEN press_loop(Tail(keys), prev, end)
    ELSE walk(sub(LOC_OF[Head(keys)], prev)) \o <<"p">>
             \o press_loop(Tail(keys), LOC_OF[Head(keys)], end)

press(keys, start, end) ==
    press_loop(keys, LOC_OF[start], LOC_OF[IF end = None THEN start ELSE end])

\* MAPPING without its p
MAPPING_nop ==
    << <<"r", "n", "v">>,
       <<"w", " ", "e">>,
       <<"t", "s", " ">> >>

MAPPING ==
    << <<"r", "n", "v">>,
       <<"w", " ", "e">>,
       <<"t", "s", "p">> >>

\* The <<x, y>> (0-based) of the MAPPING block that hold a command key
MappingCells ==
    { c \in UNION { { <<x, y>> : x \in 0 .. (Len(MAPPING[y + 1]) - 1) } :
                    y \in 0 .. (Len(MAPPING) - 1) } :
        MAPPING[c[2] + 1][c[1] + 1] # " " }

MappingKey(c) == MAPPING[c[2] + 1][c[1] + 1]

MappingKeys == { MappingKey(c) : c \in MappingCells }

\* The cell of the MAPPING block that holds command key k
MappingCellOf(k) == CHOOSE c \in MappingCells : MappingKey(c) = k

MAPPING_LOC_OF ==
    [k \in MappingKeys |-> <<MappingCellOf(k)[1] - 1, MappingCellOf(k)[2] - 1>>]

OFFSET == Len(MAPPING[1])

\* CODA without the t that clears ZZZ2
CODA_nowrite ==
    <<"\n", "r">> \o Rep("e", OFFSET) \o <<"\n">>
        \o Rep("w", OFFSET) \o <<"r", "e", "e", "r">>

CODA ==
    <<"\n", "r">> \o Rep("e", OFFSET) \o <<"t", "\n">>
        \o Rep("w", OFFSET) \o <<"r", "e", "e", "r">>

\* dict.update: the entries of d2 replace those of d1
Update(d1, d2) ==
    [k \in (DOMAIN d1) \cup (DOMAIN d2) |->
        IF k \in DOMAIN d2 THEN d2[k] ELSE d1[k]]

\* The cell (x, y) of the comprehension that yields the entry of key, where
\* the comprehension reads KEY_AT at (x + dx, y)
CellOfKey(key, dx) ==
    CHOOSE c \in MappingCells : KEY_AT[<<c[1] + dx, c[2]>>] = key

\* KBD1 whose boards stay at the key they pressed
KBD1_stay ==
    [key \in { KEY_AT[c] : c \in MappingCells } |->
        press(<<MappingKey(CellOfKey(key, 0))>>, key,
              MappingKey(CellOfKey(key, 0)))]

KBD1 ==
    [key \in { KEY_AT[c] : c \in MappingCells } |->
        press(<<MappingKey(CellOfKey(key, 0))>>, key, None)]

\* The keys of a KBD2 board without the walk back to ZZZ1
Kbd2Keys_noback(c) == walk(<<c[1] - 1, c[2] - 1>>) \o <<"r">>

\* walk((x - 1, y - 1)) + 'r' + walk((1 - x, 1 - y))
Kbd2Keys(c) ==
    walk(<<c[1] - 1, c[2] - 1>>) \o <<"r">> \o walk(<<1 - c[1], 1 - c[2]>>)

KBD2 ==
    [key \in { KEY_AT[<<c[1] + OFFSET, c[2]>>] : c \in MappingCells } |->
        press(Kbd2Keys(CellOfKey(key, OFFSET)), key, None)]

EXTRA ==
    [key \in {"g", "j"} |->
        IF key = "g" THEN Rep("w", OFFSET)
        ELSE press(CODA, "j", CODA[Len(CODA)])]

\* What we want to put on each board, except ZZZ1
BOARDS == Update(Update(KBD1, KBD2), EXTRA)

write(text, at, start) ==
    walk(sub(LOC_OF[at], LOC_OF[start])) \o <<" ", "t", " ">> \o text \o <<"\n">>

\* Python's order of the tuples LOC_OF[k]: first by x, then by y
LocLess(a, b) == a[1] < b[1] \/ (a[1] = b[1] /\ a[2] < b[2])

\* The key of ks that sorted() puts first
FirstKey(ks) ==
    CHOOSE a \in ks : \A b \in ks \ {a} : LocLess(LOC_OF[a], LOC_OF[b])

\* sorted(boards.items(), key=lambda i: LOC_OF[i[0]]), as the list of keys
RECURSIVE SortedKeys(_)
SortedKeys(ks) ==
    IF ks = {} THEN <<>>
    ELSE <<FirstKey(ks)>> \o SortedKeys(ks \ {FirstKey(ks)})

\* write_all without prev = k at the end of an iteration
RECURSIVE write_all_loop_stale(_, _, _, _)
write_all_loop_stale(boards, order, prev, end) ==
    IF order = <<>> THEN walk(sub(LOC_OF[end], LOC_OF[prev]))
    ELSE write(boards[Head(order)], Head(order), prev)
             \o write_all_loop_stale(boards, Tail(order), prev, end)

\* The for loop of write_all and the walk to end that follows it
RECURSIVE write_all_loop(_, _, _, _)
write_all_loop(boards, order, prev, end) ==
    IF order = <<>> THEN walk(sub(LOC_OF[end], LOC_OF[prev]))
    ELSE write(boards[Head(order)], Head(order), prev)
             \o write_all_loop(boards, Tail(order), Head(order), end)

write_all(boards, start, end) ==
    write_all_loop(boards, SortedKeys(DOMAIN boards), start,
                   IF end = None THEN start ELSE end)

\* An iteration of press_kbd1 without the walk back to start
press_kbd1_key_noback(key) ==
    IF isspace(key) THEN <<>>
    ELSE walk(sub(MAPPING_LOC_OF[key], <<0, 0>>)) \o <<"r">>

\* One iteration of the for loop of press_kbd1: what it appends to ret
\* (start is (0, 0))
press_kbd1_key(key) ==
    IF isspace(key) THEN <<>>
    ELSE walk(sub(MAPPING_LOC_OF[key], <<0, 0>>)) \o <<"r">>
             \o walk(sub(<<0, 0>>, MAPPING_LOC_OF[key]))

\* The iterations lo .. hi of the loop, in order.  No iteration reads what
\* another wrote (start is never reassigned), so ret is the concatenation
\* of the pieces; the range is halved to keep the evaluation shallow.
RECURSIVE press_kbd1_range(_, _, _)
press_kbd1_range(keys, lo, hi) ==
    IF lo > hi THEN <<>>
    ELSE IF lo = hi THEN press_kbd1_key(keys[lo])
    ELSE press_kbd1_range(keys, lo, (lo + hi) \div 2)
             \o press_kbd1_range(keys, ((lo + hi) \div 2) + 1, hi)

press_kbd1(keys) == press_kbd1_range(keys, 1, Len(keys))

\* S with write_all started at ZZZ1
S_from_origin ==
    <<"v">> \o write_all(BOARDS, "s", "s") \o <<" ", "t", " ">>
        \o Rep("e", OFFSET) \o <<"r">>

S ==
    <<"v">> \o write_all(BOARDS, "h", "s") \o <<" ", "t", " ">>
        \o Rep("e", OFFSET) \o <<"r">>

PROG == S \o <<" ">> \o press_kbd1(S) \o CODA

StripPROG == SelectSeq(PROG, LAMBDA c : ~isspace(c))

(***************************************************************************)
(* The machine the program runs on: the instructions of the header comment *)
(* (e, w, nw, ne, sw, se, t, r, p, v), drawn on the square grid.           *)
(*                                                                         *)
(* Every text the machine ever holds is a piece of the program it was      *)
(* started with: a blackboard gets the rest of a line of the text being    *)
(* executed, and what is executed is the program or a blackboard.  A text  *)
(* is therefore kept as the pair <<first, last>> of positions it occupies  *)
(* in the program (<<1, 0>> is the empty text).  The press-events are kept *)
(* as their number together with the first one, if any, that is not the    *)
(* key the run is expected to press at that point.                         *)
(***************************************************************************)
VARIABLES
    input,      \* what the run was started with (never changes)
    loc,        \* the current cell
    board,      \* key -> the text on its blackboard, for the boards written
    stack,      \* the texts being executed, innermost first; a frame also
                \* notes the key whose board it runs and the number of
                \* presses made before it started
    npressed,   \* the number of press-events so far
    wrong,      \* <<>>, or <<i, k>>: the i-th press-event, of key k, is the
                \* first one that differs from the expected sequence
    status,     \* "idle", "running", "done" or "failed"
    wcall,      \* the argument of the call of walk in progress, or None
    wret,       \* the move tokens the calls of walk have produced so far
    wpos,       \* where those tokens lead from the start location
    gpc,        \* the statement the generator is at
    gidx        \* the iteration of that statement's loop it is at

vmvars == <<loc, board, stack, npressed, wrong, status>>

walkvars == <<wcall, wret, wpos>>

genvars == <<gpc, gidx>>

vars == <<input, vmvars, walkvars, genvars>>

\* The machine, the walk in progress, the generator, when not the subject
VMIdle ==
    /\ loc = <<0, 0>>
    /\ board = <<>>
    /\ stack = <<>>
    /\ npressed = 0
    /\ wrong = <<>>
    /\ status = "idle"

WalkIdle == wcall = None /\ wret = <<>> /\ wpos = <<0, 0>>

GenIdle == gpc = "idle" /\ gidx = 0

Strip(text) == SelectSeq(text, LAMBDA c : ~isspace(c))

\* The program text of the run, and the press-events expected of it
Program == IF input.kind = "PROG" THEN PROG ELSE input.text

Expect == IF input.kind = "PROG" THEN StripPROG ELSE input.expect

Text(slice) == SubSeq(Program, slice[1], slice[2])

\* The press-events so far, as long as none was wrong
Pressed == SubSeq(Expect, 1, npressed)

BoardSlice(k) == IF k \in DOMAIN board THEN board[k] ELSE <<1, 0>>

BoardText(k) == Text(BoardSlice(k))

Frame(slice, cell, mark) ==
    [pc |-> slice[1], end |-> slice[2], cell |-> cell, mark |-> mark]

\* The state in which the run described by in starts: every board empty
VMStart(in) ==
    /\ input = in
    /\ loc = LOC_OF[in.start]
    /\ board = <<>>
    /\ stack = <<Frame(<<1, Len(IF in.kind = "PROG" THEN PROG ELSE in.text)>>,
                       None, 0)>>
    /\ npressed = 0
    /\ wrong = <<>>
    /\ status = "running"
    /\ WalkIdle
    /\ GenIdle

Top == stack[1]

AtEnd == Top.pc > Top.end

Running == status = "running" /\ ~AtEnd

Cur == Program[Top.pc]

\* The stack with the top frame advanced to position pc
Advance(pc) == <<[Top EXCEPT !.pc = pc]>> \o Tail(stack)

\* The move token at the top frame's position (one or two characters)
MoveToken ==
    IF /\ Cur \in {"n", "s"}
       /\ Top.pc < Top.end
       /\ Program[Top.pc + 1] \in {"w", "e"}
    THEN <<Cur, Program[Top.pc + 1]>>
    ELSE <<Cur>>

\* nw and se are up and down on the square grid; ne and sw follow from them
Delta(tok) ==
    CASE tok = <<"w">> -> <<-1, 0>>
      [] tok = <<"e">> -> <<1, 0>>
      [] tok = <<"n", "w">> -> <<0, -1>>
      [] tok = <<"s", "e">> -> <<0, 1>>
      [] tok = <<"n", "e">> -> <<1, -1>>
      [] tok = <<"s", "w">> -> <<-1, 1>>
      [] OTHER -> <<0, 0>>

\* whitespace and newlines are inert
Skip ==
    /\ Running
    /\ isspace(Cur)
    /\ stack' = Advance(Top.pc + 1)
    /\ UNCHANGED <<input, loc, board, npressed, wrong, status,
                   walkvars, genvars>>

\* e, w, nw, ne, sw, se: one step; the run fails when the step leaves the
\* keyboard (or the text is no instruction at all)
Move ==
    /\ Running
    /\ ~isspace(Cur)
    /\ Cur \notin {"t", "r", "p", "v"}
    /\ LET tok == MoveToken
           to == <<loc[1] + Delta(tok)[1], loc[2] + Delta(tok)[2]>>
       IN  IF Delta(tok) # <<0, 0>> /\ to \in Cells
           THEN /\ loc' = to
                /\ stack' = Advance(Top.pc + Len(tok))
                /\ UNCHANGED status
           ELSE /\ status' = "failed"
                /\ UNCHANGED <<loc, stack>>
    /\ UNCHANGED <<input, board, npressed, wrong,
                   walkvars, genvars>>

\* p: press the button in this room
Press ==
    /\ Running
    /\ Cur = "p"
    /\ npressed' = npressed + 1
    /\ wrong' = IF /\ wrong = <<>>
                   /\ \/ npressed + 1 > Len(Expect)
                      \/ Expect[npressed + 1] # KEY_AT[loc]
                THEN <<npressed + 1, KEY_AT[loc]>>
                ELSE wrong
    /\ stack' = Advance(Top.pc + 1)
    /\ UNCHANGED <<input, loc, board, status,
                   walkvars, genvars>>

\* v: turn on verbose mode (nothing that the presses depend on)
Verbose ==
    /\ Running
    /\ Cur = "v"
    /\ stack' = Advance(Top.pc + 1)
    /\ UNCHANGED <<input, loc, board, npressed, wrong, status,
                   walkvars, genvars>>

\* r: read/execute the instructions on the blackboard, then go on
Run ==
    /\ Running
    /\ Cur = "r"
    /\ stack' = <<Frame(BoardSlice(KEY_AT[loc]), KEY_AT[loc], npressed)>>
                    \o Advance(Top.pc + 1)
    /\ UNCHANGED <<input, loc, board, npressed, wrong, status,
                   walkvars, genvars>>

\* The position of the newline that ends the line the top frame is in
LineEnd ==
    CHOOSE i \in Top.pc .. (Top.end + 1) :
        /\ i = Top.end + 1 \/ Program[i] = "\n"
        /\ \A j \in Top.pc .. (i - 1) : Program[j] # "\n"

\* t: clear the blackboard, and write the rest of the line to it
Write ==
    /\ Running
    /\ Cur = "t"
    /\ board' = [k \in (DOMAIN board) \cup {KEY_AT[loc]} |->
                    IF k = KEY_AT[loc] THEN <<Top.pc + 1, LineEnd - 1>>
                    ELSE board[k]]
    /\ stack' = Advance(LineEnd + 1)
    /\ UNCHANGED <<input, loc, npressed, wrong, status,
                   walkvars, genvars>>

\* The end of a blackboard: go on after the r that ran it
Return ==
    /\ status = "running"
    /\ AtEnd
    /\ Len(stack) > 1
    /\ stack' = Tail(stack)
    /\ UNCHANGED <<input, loc, board, npressed, wrong, status,
                   walkvars, genvars>>

\* The end of the program
Halt ==
    /\ status = "running"
    /\ AtEnd
    /\ Len(stack) = 1
    /\ status' = "done"
    /\ UNCHANGED <<input, loc, board, stack, npressed, wrong,
                   walkvars, genvars>>

Next == Skip \/ Move \/ Press \/ Verbose \/ Run \/ Write \/ Return \/ Halt

\* The cells with a role: where write_all starts and ends by default (the
\* program's start, and ZZZ1), ZZZ2 and CODA
START == "h"

ORIGIN == "s"

SHADOW == "g"

CODACELL == "j"

(***************************************************************************)
(* The program, run from any key of the keyboard                           *)
(***************************************************************************)
Init == \E k \in Keys : VMStart([kind |-> "PROG", start |-> k])

Spec == Init /\ [][Next]_vars

(***************************************************************************)
(* write_all(BOARDS, a, b) run from a, for all keys a and b; and the setup *)
(* part of S, ended at ZZZ1 or at ZZZ2, followed by press_kbd1 of one      *)
(* command key                                                             *)
(***************************************************************************)
WriteAllInput(a, b) ==
    [kind |-> "write_all", start |-> a, end |-> b,
     text |-> write_all(BOARDS, a, b), expect |-> <<>>]

KbdInput(k, at) ==
    [kind |-> "press_kbd1", start |-> START, end |-> at, key |-> k,
     text |-> <<"v">> \o write_all(BOARDS, START, at) \o press_kbd1(<<k>>),
     expect |-> IF at = ORIGIN THEN <<k>> ELSE press_kbd1(<<k>>)]

InitBoards ==
    \/ \E a \in Keys, b \in Keys : VMStart(WriteAllInput(a, b))
    \/ \E k \in MappingKeys, at \in {ORIGIN, SHADOW} : VMStart(KbdInput(k, at))

SpecBoards == InitBoards /\ [][Next]_vars

(***************************************************************************)
(* walk(b - a) run from a, for all keys a and b; and press(K, a, b) run    *)
(* from a, for the strings K of at most MaxKeys characters                 *)
(***************************************************************************)
MaxKeys == 2

\* The keys at the ends of the three rows, and a space
PressKeys == {"q", "p", "l", "z", "m"}

PressAlphabet == PressKeys \cup {" "}

KeyStrings == UNION { [1 .. n -> PressAlphabet] : n \in 1 .. MaxKeys }

WalkInput(a, b) ==
    [kind |-> "walk", start |-> a, end |-> b,
     text |-> walk(sub(LOC_OF[b], LOC_OF[a])), expect |-> <<>>]

PressInput(K, a, b) ==
    [kind |-> "press", start |-> a, end |-> b, keys |-> K,
     text |-> press(K, a, b), expect |-> Strip(K)]

InitPress ==
    \/ \E a \in Keys, b \in Keys : VMStart(WalkInput(a, b))
    \/ \E K \in KeyStrings, a \in PressKeys, b \in PressKeys \cup {None} :
           VMStart(PressInput(K, a, b))

NextPress == Move \/ Press \/ Halt

SpecPress == InitPress /\ [][NextPress]_vars
(***************************************************************************)
(* One evaluation of walk(offset), call by call: wcall is the argument of  *)
(* the call being evaluated, each call that recurses hands one move token  *)
(* to wret, and wpos is where the tokens handed out so far lead from the   *)
(* start location, on the unbounded lattice.                               *)
(***************************************************************************)
MaxOffset == 3

MaxFrom == 1

Offsets == (-MaxOffset .. MaxOffset) \X (-MaxOffset .. MaxOffset)

Froms == (-MaxFrom .. MaxFrom) \X (-MaxFrom .. MaxFrom)

InitWalk ==
    \E o \in Offsets, f \in Froms :
        /\ input = [kind |-> "walk_call", offset |-> o, from |-> f]
        /\ wcall = o
        /\ wret = <<>>
        /\ wpos = f
        /\ VMIdle
        /\ GenIdle

\* The call hands out token tok and recurses on <<x, y>>
WalkRecurse(tok, x, y) ==
    /\ wret' = Append(wret, tok)
    /\ wpos' = <<wpos[1] + Delta(tok)[1], wpos[2] + Delta(tok)[2]>>
    /\ wcall' = <<x, y>>
    /\ UNCHANGED <<input, vmvars, genvars>>

\* if x < 0: return 'w' + walk((x + 1, y))
WalkWest ==
    /\ wcall # None
    /\ wcall[1] < 0
    /\ WalkRecurse(<<"w">>, wcall[1] + 1, wcall[2])

\* The second branch with the token of the third
WalkSouthEast_nw ==
    /\ wcall # None
    /\ ~(wcall[1] < 0)
    /\ wcall[2] > 0
    /\ WalkRecurse(<<"n", "w">>, wcall[1], wcall[2] - 1)

\* elif y > 0: return 'se' + walk((x, y - 1))
WalkSouthEast ==
    /\ wcall # None
    /\ ~(wcall[1] < 0)
    /\ wcall[2] > 0
    /\ WalkRecurse(<<"s", "e">>, wcall[1], wcall[2] - 1)

\* elif y < 0: return 'nw' + walk((x, y + 1))
WalkNorthWest ==
    /\ wcall # None
    /\ ~(wcall[1] < 0)
    /\ ~(wcall[2] > 0)
    /\ wcall[2] < 0
    /\ WalkRecurse(<<"n", "w">>, wcall[1], wcall[2] + 1)

\* elif x > 0: return 'e' + walk((x - 1, y))
WalkEast ==
    /\ wcall # None
    /\ ~(wcall[1] < 0)
    /\ ~(wcall[2] > 0)
    /\ ~(wcall[2] < 0)
    /\ wcall[1] > 0
    /\ WalkRecurse(<<"e">>, wcall[1] - 1, wcall[2])

\* else: return ''
WalkBase ==
    /\ wcall # None
    /\ ~(wcall[1] < 0)
    /\ ~(wcall[2] > 0)
    /\ ~(wcall[2] < 0)
    /\ ~(wcall[1] > 0)
    /\ wcall' = None
    /\ UNCHANGED <<input, vmvars, genvars, wret, wpos>>

NextWalk == WalkWest \/ WalkSouthEast \/ WalkNorthWest \/ WalkEast \/ WalkBase

\* A call returns once the calls it makes have returned, so that every call
\* that can be made is made
SpecWalk == InitWalk /\ [][NextWalk]_vars /\ WF_vars(NextWalk)

(***************************************************************************)
(* The run of the generator, statement by statement, with the dictionary   *)
(* lookups it makes: a lookup of a missing key raises KeyError and ends    *)
(* the run.                                                                *)
(***************************************************************************)
\* The (x, y) the comprehensions of KBD1 and KBD2 go through, in order: for
\* y, row in enumerate(MAPPING), and inside it for x, k in enumerate(row)
FirstCell(cs) ==
    CHOOSE c \in cs :
        \A d \in cs \ {c} : LocLess(<<c[2], c[1]>>, <<d[2], d[1]>>)

RECURSIVE CellSeq(_)
CellSeq(cs) ==
    IF cs = {} THEN <<>>
    ELSE <<FirstCell(cs)>> \o CellSeq(cs \ {FirstCell(cs)})

MappingCellSeq == CellSeq(MappingCells)

\* The lookups of press(keys, start, end) all succeed
press_ok(keys, start, end) ==
    /\ (IF end = None THEN start ELSE end) \in DOMAIN LOC_OF
    /\ start \in DOMAIN LOC_OF
    /\ \A i \in 1 .. Len(keys) : ~isspace(keys[i]) => keys[i] \in DOMAIN LOC_OF

InitGen ==
    /\ input = [kind |-> "generate"]
    /\ gpc = "KBD1"
    /\ gidx = 1
    /\ VMIdle
    /\ WalkIdle

\* The generator goes on to iteration i of statement pc if ok, and raises
\* KeyError if not
GenGoto(ok, pc, i) ==
    /\ IF ok THEN gpc' = pc /\ gidx' = i
             ELSE gpc' = "KeyError" /\ UNCHANGED gidx
    /\ UNCHANGED <<input, vmvars, walkvars>>

\* Iteration gidx of a loop of n iterations is done: on to the next one, or
\* to statement pc after the last
GenStep(ok, n, pc) ==
    IF gidx < n THEN GenGoto(ok, gpc, gidx + 1) ELSE GenGoto(ok, pc, 1)

\* KEY_AT[(x, y)]: press(k, KEY_AT[(x, y)])
GenKBD1 ==
    /\ gpc = "KBD1"
    /\ GenStep(/\ MappingCellSeq[gidx] \in DOMAIN KEY_AT
               /\ press_ok(<<MappingKey(MappingCellSeq[gidx])>>,
                           KEY_AT[MappingCellSeq[gidx]], None),
               Len(MappingCellSeq), "KBD2")

\* KEY_AT[(x + OFFSET, y)]: press(walk(...) + 'r' + walk(...), KEY_AT[...])
GenKBD2 ==
    /\ gpc = "KBD2"
    /\ GenStep(/\ <<MappingCellSeq[gidx][1] + OFFSET, MappingCellSeq[gidx][2]>>
                      \in DOMAIN KEY_AT
               /\ press_ok(Kbd2Keys(MappingCellSeq[gidx]),
                           KEY_AT[<<MappingCellSeq[gidx][1] + OFFSET,
                                    MappingCellSeq[gidx][2]>>], None),
               Len(MappingCellSeq), "EXTRA")

\* 'j': press(CODA, 'j', end=CODA[-1])
GenEXTRA ==
    /\ gpc = "EXTRA"
    /\ GenGoto(press_ok(CODA, CODACELL, CODA[Len(CODA)]), "write_all", 1)

\* write_all(BOARDS): iteration gidx writes board gidx of the sorted boards,
\* starting from the one before it; the iteration after the last is the walk
\* to end
GenWriteAll ==
    /\ gpc = "write_all"
    /\ GenStep(/\ (IF gidx = 1 THEN START
                   ELSE SortedKeys(DOMAIN BOARDS)[gidx - 1]) \in DOMAIN LOC_OF
               /\ (IF gidx = Cardinality(DOMAIN BOARDS) + 1 THEN ORIGIN
                   ELSE SortedKeys(DOMAIN BOARDS)[gidx]) \in DOMAIN LOC_OF,
               Cardinality(DOMAIN BOARDS) + 1, "press_kbd1")

\* press_kbd1(S): iteration gidx looks up S[gidx] in MAPPING_LOC_OF
GenPressKbd1 ==
    /\ gpc = "press_kbd1"
    /\ GenStep(isspace(S[gidx]) \/ S[gidx] \in DOMAIN MAPPING_LOC_OF,
               Len(S), "print")

\* print PROG
GenPrint ==
    /\ gpc = "print"
    /\ GenGoto(TRUE, "done", 1)

NextGen ==
    GenKBD1 \/ GenKBD2 \/ GenEXTRA \/ GenWriteAll \/ GenPressKbd1 \/ GenPrint

SpecGen == InitGen /\ [][NextGen]_vars
(***************************************************************************)
(* Properties                                                              *)
(***************************************************************************)
StripS == Strip(S)

\* The code needed to type S using the first keyboard
ReplayOfS == press_kbd1(S)

Abs(n) == IF n < 0 THEN -n ELSE n

\* The characters of a list of tokens
RECURSIVE Flatten(_)
Flatten(toks) == IF toks = <<>> THEN <<>> ELSE Head(toks) \o Flatten(Tail(toks))

\* The run has ended normally, and every press-event was the expected one
Faithful ==
    /\ status = "done"
    /\ wrong = <<>>
    /\ npressed = Len(Expect)

C2_QuineFromH ==
    (input.kind = "PROG" /\ input.start = START) =>
        /\ status # "failed"
        /\ wrong = <<>>
        /\ npressed <= Len(StripPROG)
        /\ status = "done" => npressed = Len(StripPROG)
        /\ StripPROG = StripS \o Strip(ReplayOfS) \o Strip(CODA)

C2_Witness ==
    /\ input.kind = "PROG"
    /\ input.start = START
    /\ status = "done"
    /\ Pressed = StripS \o Strip(ReplayOfS) \o Strip(CODA)
    /\ wrong = <<>>

\* C3: every call of walk recurses on an offset nearer to (0, 0), so the
\* evaluation ends; the tokens it has produced then lead from the start
\* location to start + offset, there are at most |x| + |y| of them, they
\* are walk(offset), and there is none for the offset (0, 0).
WalkResult ==
    wcall = None =>
        /\ wpos = <<input.from[1] + input.offset[1],
                    input.from[2] + input.offset[2]>>
        /\ Len(wret) <= Abs(input.offset[1]) + Abs(input.offset[2])
        /\ Flatten(wret) = walk(input.offset)
        /\ input.offset = <<0, 0>> => wret = <<>>

C3_WalkRoundTrip == []WalkResult /\ <>(wcall = None)

C3_Witness ==
    /\ input.kind = "walk_call"
    /\ wcall = None
    /\ input.offset[1] < 0
    /\ input.offset[2] > 0
    /\ Len(wret) = Abs(input.offset[1]) + Abs(input.offset[2])

\* C4: press(K, start, end) run from the cell of start never leaves the
\* grid, holds nothing but moves and presses, presses exactly the
\* characters of K that are no whitespace, in order, and ends at the cell
\* of end (of start when end is None).
C4_PressFidelity ==
    input.kind = "press" =>
        /\ status # "failed"
        /\ wrong = <<>>
        /\ status = "running" => ENABLED NextPress
        /\ status = "done" =>
               /\ npressed = Len(Strip(input.keys))
               /\ Pressed = Strip(input.keys)
               /\ loc = LOC_OF[IF input.end = None THEN input.start
                               ELSE input.end]

C4_Witness ==
    /\ input.kind = "press"
    /\ input.keys = <<" ", "m">>
    /\ input.start = "q"
    /\ input.end = "l"
    /\ status = "done"
    /\ npressed = 1
    /\ loc = LOC_OF["l"]

\* C5: write_all(BOARDS, start, end) run from the cell of start with every
\* board empty presses nothing, runs no board, writes no board but those of
\* BOARDS (so not the one of ZZZ1), and ends at the cell of end with every
\* board of BOARDS holding its planned text, up to the blank after the t.
C5_WriteAll ==
    input.kind = "write_all" =>
        /\ status # "failed"
        /\ npressed = 0
        /\ Len(stack) = 1
        /\ DOMAIN board \subseteq DOMAIN BOARDS
        /\ ORIGIN \notin DOMAIN board
        /\ status = "done" =>
               /\ DOMAIN board = DOMAIN BOARDS
               /\ \A k \in DOMAIN BOARDS : Strip(BoardText(k)) = BOARDS[k]
               /\ loc = LOC_OF[input.end]

C5_Witness ==
    /\ input.kind = "write_all"
    /\ input.start = "p"
    /\ input.end = "m"
    /\ status = "done"
    /\ DOMAIN board = DOMAIN BOARDS
    /\ BoardText(CODACELL) = <<" ">> \o BOARDS[CODACELL]

\* C6: once the boards of BOARDS are written, press_kbd1(k) for a command
\* key k, which is walk(off) + 'r' + walk(-off) for the offset off of k in
\* MAPPING, presses exactly k and returns to ZZZ1 when run from ZZZ1, and
\* presses exactly its own characters and returns to ZZZ2 when run from
\* ZZZ2.
C6_TierDuality ==
    input.kind = "press_kbd1" =>
        /\ status # "failed"
        /\ wrong = <<>>
        /\ input.expect = IF input.end = ORIGIN THEN <<input.key>>
                          ELSE walk(MAPPING_LOC_OF[input.key]) \o <<"r">>
                                   \o walk(sub(<<0, 0>>,
                                               MAPPING_LOC_OF[input.key]))
        /\ status = "done" =>
               /\ npressed = Len(input.expect)
               /\ loc = LOC_OF[input.end]
               /\ \A k \in DOMAIN BOARDS : Strip(BoardText(k)) = BOARDS[k]

C6_Witness ==
    /\ input.kind = "press_kbd1"
    /\ input.end = SHADOW
    /\ input.key = "p"
    /\ status = "done"
    /\ Pressed = press_kbd1(<<"p">>)
    /\ loc = LOC_OF[SHADOW]

\* C7: the run of the generator raises no KeyError: every lookup in KEY_AT,
\* LOC_OF and MAPPING_LOC_OF is of a key that is there.
C7_NoKeyError == gpc # "KeyError"

C7_Witness == gpc = "done" /\ input.kind = "generate"

\* The second run of ZZZ1's board, made with ZZZ2's board cleared, is at its
\* end; Emitted is what it has pressed
SecondRunEnd ==
    /\ input.kind = "PROG"
    /\ input.start = START
    /\ status = "running"
    /\ Len(stack) = 2
    /\ AtEnd
    /\ Top.cell = ORIGIN
    /\ SHADOW \in DOMAIN board
    /\ Strip(BoardText(SHADOW)) = <<>>

Emitted == SubSeq(Pressed, Top.mark + 1, npressed)

\* C8, as stated: the second run of ZZZ1's board presses exactly the text on
\* ZZZ1's board, without the whitespace.
C8_SecondRunTypesBoard ==
    SecondRunEnd => wrong = <<>> /\ Emitted = Strip(BoardText(ORIGIN))

\* C8, amended: the second run of ZZZ1's board presses exactly the text on
\* ZZZ1's board after its first OFFSET + 1 characters (the walk to ZZZ2 and
\* the r), which is press_kbd1(S), and ends at ZZZ2; those first characters
\* are the last ones of S, which the first run pressed.
C8_SecondRunTypesReplay ==
    SecondRunEnd =>
        /\ wrong = <<>>
        /\ Strip(BoardText(ORIGIN)) = Rep("e", OFFSET) \o <<"r">> \o Emitted
        /\ Emitted = ReplayOfS
        /\ Top.mark = Len(StripS)
        /\ SubSeq(StripS, Len(StripS) - OFFSET, Len(StripS))
               = Rep("e", OFFSET) \o <<"r">>
        /\ loc = LOC_OF[SHADOW]

C8_Witness == SecondRunEnd /\ npressed = Len(StripS) + Len(ReplayOfS)

\* C9, as stated: when the program has ended, ZZZ2's board holds 'w' * OFFSET
\* again.
C9_ShadowRestored ==
    (input.kind = "PROG" /\ input.start = START /\ status = "done") =>
        Strip(BoardText(SHADOW)) = Rep("w", OFFSET)

\* C9, amended: from the first press of the second run of ZZZ1's board on,
\* ZZZ2's board is written and empty; what follows that run is the walk to
\* CODA and the run of its board, which presses the characters of CODA, and
\* the program ends at the key CODA ends with, ZZZ2's board still empty.
C9_ShadowStaysEmpty ==
    (input.kind = "PROG" /\ input.start = START) =>
        /\ npressed > Len(StripS) =>
               /\ SHADOW \in DOMAIN board
               /\ Strip(BoardText(SHADOW)) = <<>>
        /\ status = "done" =>
               /\ Strip(BoardText(SHADOW)) = <<>>
               /\ loc = LOC_OF[CODA[Len(CODA)]]
               /\ wrong = <<>>
               /\ SubSeq(Pressed, Len(StripS) + Len(ReplayOfS) + 1, npressed)
                      = Strip(CODA)

C9_Witness ==
    /\ input.kind = "PROG"
    /\ input.start = START
    /\ status = "done"
    /\ SHADOW \in DOMAIN board
    /\ BoardText(SHADOW) = <<>>
    /\ loc = LOC_OF["r"]

\* C10: walk(b - a) run from the cell of a, for keys a and b, holds nothing
\* but moves, visits laid-out cells only, and ends at the cell of b.
C10_WalkOnKeyboard ==
    input.kind = "walk" =>
        /\ status # "failed"
        /\ loc \in DOMAIN KEY_AT
        /\ status = "running" => ENABLED NextPress
        /\ npressed = 0
        /\ status = "done" => loc = LOC_OF[input.end]

C10_Witness ==
    /\ input.kind = "walk"
    /\ input.start = "m"
    /\ input.end = "p"
    /\ status = "done"
    /\ loc = LOC_OF["p"]
====
